---- MODULE Spec2Model ----
(***************************************************************************)
(* bepasty-server, views/download.py: the content delivery pipeline.       *)
(*                                                                         *)
(* DownloadView / InlineView / ThumbnailView share get(), the metadata     *)
(* gate.  get() opens the item (storage.openwrite), checks COMPLETE,       *)
(* LOCKED and the lifetime, and hands the open item to response().         *)
(* DownloadView.response() wraps the generator stream() in a Response;     *)
(* the WSGI server then pulls chunks from it or closes it.                 *)
(* ThumbnailView.response() builds the thumbnail inside get().             *)
(*                                                                         *)
(* A request is one slot r of Reqs.  The storage holds one item under the  *)
(* requested name.                                                         *)
(***************************************************************************)
EXTENDS Integers, Sequences, FiniteSets

VARIABLES
    store,  \* the item stored under the requested name (metadata and data)
    PIL,    \* module global PIL: TRUE iff "import PIL" succeeded
    av,     \* module global av: TRUE iff "import av" succeeded
    req,    \* per request: caller, route, response, and what get() did
    hnd,    \* per request: the item handle returned by storage.openwrite
    gen     \* per request: the frame of the generator stream(item, start, limit)

vars == <<store, PIL, av, req, hnd, gen>>

----------------------------------------------------------------------------
(* Bounds of the model *)

MaxChunks == 2

MaxTime == 2

(* Program constant: the read window of stream(), 16 * 1024 *)
ChunkSize == 16384

(* Program constant: the text preview reads at most 1024 bytes *)
TxtPreviewBytes == 1024

Reqs == {"r1", "r2"}

Routes == {"download", "inline", "thumbnail"}

(* one stored MIME type per branch of ThumbnailView.response's match *)
(* a MIME type "major/minor" is the pair <<major, minor>> *)
Types == {<<"image", "jpeg">>, <<"image", "svg+xml">>, <<"video", "mp4">>,
          <<"text", "html">>, <<"application", "octet-stream">>}

(* item sizes of 0, 1, .., MaxChunks chunks *)
Sizes == {0} \cup {q * ChunkSize + 1 : q \in 0..(MaxChunks - 1)}

(* how many chunks a consumer pulls at most before it gives up *)
MaxPulls == MaxChunks + 2

Faults == {"none", "open", "complete", "locked", "expiry"}

Max(a, b) == IF a >= b THEN a ELSE b

Min(a, b) == IF a <= b THEN a ELSE b

RECURSIVE SumLen(_)
SumLen(s) == IF s = <<>> THEN 0 ELSE s[1].len + SumLen(Tail(s))

----------------------------------------------------------------------------
(* The metadata gate: DownloadView.get *)

(* get() with the LOCKED test moved before the COMPLETE test *)
GateExit_LockedFirst(mr, ma, it, fault, over) ==
    IF ~mr THEN "forbidden_read"
    ELSE IF fault = "open" THEN "open_error"
    ELSE IF ~it.exists THEN "not_found"
    ELSE IF fault = "locked" THEN "raised_locked"
    ELSE IF it.locked /\ ~ma THEN "forbidden_locked"
    ELSE IF fault = "complete" THEN "raised_complete"
    ELSE IF ~it.complete THEN "incomplete"
    ELSE IF fault = "expiry" THEN "raised_expiry"
    ELSE IF over THEN "expired"
    ELSE "pass"

(* get() with the COMPLETE test left out *)
GateExit_NoCompleteTest(mr, ma, it, fault, over) ==
    IF ~mr THEN "forbidden_read"
    ELSE IF fault = "open" THEN "open_error"
    ELSE IF ~it.exists THEN "not_found"
    ELSE IF fault = "locked" THEN "raised_locked"
    ELSE IF it.locked /\ ~ma THEN "forbidden_locked"
    ELSE IF fault = "expiry" THEN "raised_expiry"
    ELSE IF over THEN "expired"
    ELSE "pass"

(* get() with the READ test moved into the try block, after openwrite *)
GateExit_ReadAfterOpen(mr, ma, it, fault, over) ==
    IF fault = "open" THEN "open_error"
    ELSE IF ~it.exists THEN "not_found"
    ELSE IF ~mr THEN "forbidden_locked"
    ELSE IF fault = "complete" THEN "raised_complete"
    ELSE IF ~it.complete THEN "incomplete"
    ELSE IF fault = "locked" THEN "raised_locked"
    ELSE IF it.locked /\ ~ma THEN "forbidden_locked"
    ELSE IF fault = "expiry" THEN "raised_expiry"
    ELSE IF over THEN "expired"
    ELSE "pass"

(* get() with the lifetime test moved to the head of the try block *)
GateExit_ExpiryFirst(mr, ma, it, fault, over) ==
    IF ~mr THEN "forbidden_read"
    ELSE IF fault = "open" THEN "open_error"
    ELSE IF ~it.exists THEN "not_found"
    ELSE IF fault = "expiry" THEN "raised_expiry"
    ELSE IF over THEN "expired"
    ELSE IF fault = "complete" THEN "raised_complete"
    ELSE IF ~it.complete THEN "incomplete"
    ELSE IF fault = "locked" THEN "raised_locked"
    ELSE IF it.locked /\ ~ma THEN "forbidden_locked"
    ELSE "pass"

(* get() with ENOENT swallowed: a missing item is taken for an open one *)
GateExit_MissingIgnored(mr, ma, it, fault, over) ==
    IF ~mr THEN "forbidden_read"
    ELSE IF fault = "open" THEN "open_error"
    ELSE IF fault = "complete" THEN "raised_complete"
    ELSE IF ~it.complete THEN "incomplete"
    ELSE IF fault = "locked" THEN "raised_locked"
    ELSE IF it.locked /\ ~ma THEN "forbidden_locked"
    ELSE IF fault = "expiry" THEN "raised_expiry"
    ELSE IF over THEN "expired"
    ELSE "pass"

(* The exit get() takes.  mr, ma: may(READ), may(ADMIN); it: the stored    *)
(* item; fault: the call that raises, if any; over: what                   *)
(* delete_if_lifetime_over returns.                                        *)
GateExit(mr, ma, it, fault, over) ==
    IF ~mr THEN "forbidden_read"
    ELSE IF fault = "open" THEN "open_error"
    ELSE IF ~it.exists THEN "not_found"
    ELSE IF fault = "complete" THEN "raised_complete"
    ELSE IF ~it.complete THEN "incomplete"
    ELSE IF fault = "locked" THEN "raised_locked"
    ELSE IF it.locked /\ ~ma THEN "forbidden_locked"
    ELSE IF fault = "expiry" THEN "raised_expiry"
    ELSE IF over THEN "expired"
    ELSE "pass"

(* exits reached after storage.openwrite returned an item *)
AfterOpen == {"raised_complete", "incomplete", "raised_locked",
              "forbidden_locked", "raised_expiry", "expired", "pass"}

(* need_close cleared before the lifetime test instead of after it *)
need_close_ClearedEarly(exit) == exit \notin {"pass", "expired", "raised_expiry"}

(* need_close as the finally clause finds it *)
need_close(exit) == exit # "pass"

(* exits on which item.meta was read *)
MetaRead(exit) == exit \in AfterOpen

(* what delete_if_lifetime_over did on this exit *)
ExpiryCall(exit) ==
    CASE exit = "raised_expiry" -> "raised"
      [] exit = "expired" -> "true"
      [] exit = "pass" -> "false"
      [] OTHER -> "notcalled"

(* the HTTP status of a terminal exit *)
ExitStatus(exit) ==
    CASE exit \in {"forbidden_read", "forbidden_locked"} -> 403
      [] exit \in {"not_found", "expired"} -> 404
      [] exit = "incomplete" -> 409
      [] exit = "pass" -> 200
      [] OTHER -> 500

(* ThumbnailView without its own err_incomplete: it inherits DownloadView's *)
err_incomplete_Inherited(route) == [body |-> "error.html", status |-> 409]

(* err_incomplete: DownloadView renders error.html, ThumbnailView returns b'' *)
err_incomplete(route) ==
    IF route = "thumbnail" THEN [body |-> "empty", status |-> 409]
    ELSE [body |-> "error.html", status |-> 409]

----------------------------------------------------------------------------
(* The byte accessor and the streamer: DownloadView.stream *)

(* item.data.read(length, offset): the number of bytes it returns, the     *)
(* stored data being `stored` bytes long                                   *)
Read(length, off, stored) == Max(0, Min(length, stored - off))

(* a read window one byte short *)
ChunkLen_OffByOne(limit, off) == Min(limit - off, ChunkSize - 1)

(* the length stream() asks of one read *)
ChunkLen(limit, off) == Min(limit - off, ChunkSize)

(* offset = max(0, start), evaluated when the generator is first resumed *)
StartOffset(start) == Max(0, start)

(* the generator's offset on entry to the while test *)
LoopOffset(g) == IF g.state = "created" THEN StartOffset(g.start) ELSE g.offset

(* a while test that stops one chunk early *)
WhileTest_StopsEarly(off, limit) == off + ChunkSize < limit

(* the while test of stream(): another chunk is read iff offset < limit *)
WhileTest(off, limit) == off < limit

(* what leaving the "with item" block does to the handle: Item.__exit__ closes *)
WithExit(h) == [h EXCEPT !.closed = @ + 1]

----------------------------------------------------------------------------
(* The thumbnail dispatcher: ThumbnailView.response *)

RasterTypes == {<<"image", "jpeg">>, <<"image", "png">>, <<"image", "gif">>,
                <<"image", "webp">>, <<"image", "bmp">>}

(* the branch response() takes for stored type ct *)
ThumbStrategy(pil, ct) ==
    IF ~pil THEN "placeholder_nocodec"
    ELSE IF ct \in RasterTypes THEN "raster"
    ELSE IF ct = <<"image", "svg+xml">> THEN "svg"
    ELSE IF ct = <<"video", "mp4">> THEN "video"
    ELSE IF ct[1] = "text" THEN "text"
    ELSE "placeholder"

(* the length of the one item.data.read a strategy does; -1: it reads nothing *)
ThumbReadLen(strategy, sz) ==
    CASE strategy \in {"raster", "svg", "video"} -> sz
      [] strategy = "text" -> Min(sz, TxtPreviewBytes)
      [] OTHER -> -1

(* TRUE iff the strategy raises: a decoder rejects the data, or av is None *)
ThumbRaises(strategy, hasAv, decodes) ==
    \/ strategy = "raster" /\ ~decodes
    \/ strategy = "video" /\ (~hasAv \/ ~decodes)

----------------------------------------------------------------------------
(* Text.  An item name, a filename and a MIME string are sequences of      *)
(* tokens: a word without separators, or one of the characters ".", "/",   *)
(* "&", "<", ">".  The content of an item is a sequence of characters.     *)

(* str.rfind: the last index of tok in p, 0 if there is none *)
RFind(p, tok) ==
    LET hits == {i \in 1..Len(p) : p[i] = tok}
    IN  IF hits = {} THEN 0 ELSE CHOOSE i \in hits : \A j \in hits : j <= i

(* os.path.splitext: the extension starts at the last dot of the last path *)
(* component, leading dots of the component not counting                   *)
splitext(p) ==
    LET sepIndex == RFind(p, "/")
        dotIndex == RFind(p, ".")
    IN  IF /\ dotIndex > sepIndex
           /\ \E k \in (sepIndex + 1)..(dotIndex - 1) : p[k] # "."
        THEN <<SubSeq(p, 1, dotIndex - 1), SubSeq(p, dotIndex, Len(p))>>
        ELSE <<p, <<>>>>

(* f'"{s}"' *)
Quote(s) == <<"\"">> \o s \o <<"\"">>

(* the MIME string of the type <<major, minor>> *)
MimeText(ct) == <<ct[1], "/", ct[2]>>

(* str.replace(c, to) *)
RECURSIVE Replace(_, _, _)
Replace(s, c, to) ==
    IF s = <<>> THEN <<>>
    ELSE (IF s[1] = c THEN to ELSE <<s[1]>>) \o Replace(Tail(s), c, to)

(* .replace('&', '&amp;').replace('<', '&lt;').replace('>', '&gt;') *)
EscapeXml(s) ==
    Replace(Replace(Replace(s, "&", <<"&", "amp;">>), "<", <<"&", "lt;">>),
            ">", <<"&", "gt;">>)

(* content.split('\n') *)
RECURSIVE SplitLines(_)
SplitLines(s) ==
    LET nl == {i \in 1..Len(s) : s[i] = "\n"}
    IN  IF nl = {} THEN <<s>>
        ELSE LET i == CHOOSE k \in nl : \A j \in nl : k <= j
             IN  <<SubSeq(s, 1, i - 1)>> \o SplitLines(SubSeq(s, i + 1, Len(s)))

(* '\n'.join(lines) *)
RECURSIVE JoinLines(_)
JoinLines(ls) ==
    IF ls = <<>> THEN <<>>
    ELSE IF Len(ls) = 1 THEN ls[1]
    ELSE ls[1] \o <<"\n">> \o JoinLines(Tail(ls))

(* Program constants of the text preview: 6 lines of 30 characters *)
PreviewLines == 6

PreviewCols == 30

(* line[:30] + ('...' if len(line) > 30 else '') *)
ClipLine(line) ==
    SubSeq(line, 1, Min(Len(line), PreviewCols))
        \o (IF Len(line) > PreviewCols THEN <<".", ".", ".">> ELSE <<>>)

(* preview_text before escaping: the first lines of what read() returned *)
PreviewText(data) ==
    LET lines == SplitLines(data)
        kept == SubSeq(lines, 1, Min(Len(lines), PreviewLines))
    IN  JoinLines([i \in 1..Len(kept) |-> ClipLine(kept[i])])

(* the characters item.data.read(min(sz, 1024), 0) returns *)
PreviewRead(content, sz) ==
    SubSeq(content, 1, Min(Len(content), Min(sz, TxtPreviewBytes)))

----------------------------------------------------------------------------
(* The response framer: DownloadView.response, ThumbnailView.response *)

CacheForever == "public, max-age=31536000, immutable"

NoDisposition == [mode |-> "absent", filename |-> <<>>]

(* a response without the headers of this module (an error page, a 409) *)
NoHeaders == [disposition |-> NoDisposition,
              length |-> [of |-> "absent", n |-> 0],
              ctype |-> <<"absent", "absent">>,
              nosniff |-> "absent", cache |-> "absent", etag |-> <<>>]

NoData == [encoding |-> "none", text |-> <<>>]

(* the class attribute content_disposition of the view *)
content_disposition(route) == IF route = "download" THEN "attachment" ELSE "inline"

(* ct of DownloadView.response, sanitized on every disposition *)
ContentType_AlwaysPlain(dispo, ct) ==
    IF ct[1] = "text" THEN <<"text", "plain">> ELSE ct

(* ct of DownloadView.response: text/* is sent as text/plain unless the    *)
(* disposition is attachment                                               *)
ContentType(dispo, ct) ==
    IF dispo # "attachment" /\ ct[1] = "text" THEN <<"text", "plain">> ELSE ct

(* the headers DownloadView.response sets *)
DownloadHeaders(it, dispo) ==
    [disposition |-> [mode |-> dispo, filename |-> it.filename],
     length |-> [of |-> "meta[SIZE]", n |-> it.size],
     ctype |-> ContentType(dispo, it.type),
     nosniff |-> "nosniff", cache |-> CacheForever,
     etag |-> Quote(it.name)]

(* the match statement with image/webp joined to the png case *)
thumbnail_type_WebpAsPng(ct) ==
    CASE ct = <<"image", "jpeg">> -> "jpeg"
      [] ct \in {<<"image", "png">>, <<"image", "gif">>, <<"image", "webp">>} -> "png"
      [] ct = <<"image", "bmp">> -> "bmp"
      [] ct = <<"image", "svg+xml">> -> "svg+xml"
      [] ct = <<"video", "mp4">> -> "mp4"
      [] OTHER -> "svg+xml"

(* thumbnail_type as the match statement sets it *)
thumbnail_type(ct) ==
    CASE ct = <<"image", "jpeg">> -> "jpeg"
      [] ct \in {<<"image", "png">>, <<"image", "gif">>} -> "png"
      [] ct = <<"image", "webp">> -> "webp"
      [] ct = <<"image", "bmp">> -> "bmp"
      [] ct = <<"image", "svg+xml">> -> "svg+xml"
      [] ct = <<"video", "mp4">> -> "mp4"
      [] OTHER -> "svg+xml"

(* the format the bytes of thumbnail_data are encoded in *)
ThumbEncoding(strategy, ct) ==
    CASE strategy = "raster" -> thumbnail_type(ct)
      [] strategy = "video" -> "jpeg"
      [] strategy = "svg" -> "stored"
      [] strategy = "text" -> "svg"
      [] OTHER -> "svg"

(* the text a generated SVG embeds *)
ThumbText(strategy, it) ==
    CASE strategy = "text" -> EscapeXml(PreviewText(PreviewRead(it.content, it.size)))
      [] strategy \in {"placeholder", "placeholder_nocodec"} -> MimeText(it.type)
      [] OTHER -> <<>>

(* thumbnail_data *)
ThumbnailData(strategy, it) ==
    [encoding |-> ThumbEncoding(strategy, it.type), text |-> ThumbText(strategy, it)]

(* the "if not PIL" return without its nosniff header *)
NoCodecHeaders_Sniffable(name) ==
    [disposition |-> NoDisposition,
     length |-> [of |-> "len(thumbnail_data)", n |-> 0],
     ctype |-> <<"image", "svg+xml">>,
     nosniff |-> "absent", cache |-> CacheForever,
     etag |-> Quote(name \o <<"-thumb">>)]

(* the headers of the "if not PIL" return of ThumbnailView.response *)
NoCodecHeaders(name) ==
    [disposition |-> NoDisposition,
     length |-> [of |-> "len(thumbnail_data)", n |-> 0],
     ctype |-> <<"image", "svg+xml">>,
     nosniff |-> "nosniff", cache |-> CacheForever,
     etag |-> Quote(name \o <<"-thumb">>)]

(* the headers of the "case _" return of ThumbnailView.response *)
PlaceholderHeaders(name) ==
    [disposition |-> NoDisposition,
     length |-> [of |-> "len(thumbnail_data)", n |-> 0],
     ctype |-> <<"image", "svg+xml">>,
     nosniff |-> "nosniff", cache |-> CacheForever,
     etag |-> Quote(name \o <<"-thumb">>)]

(* the headers ThumbnailView.response sets after the match: name has been  *)
(* rebound by "name, ext = os.path.splitext(fn)"                           *)
ThumbnailHeaders(it, dispo) ==
    LET name == splitext(it.filename)[1]
        ttype == thumbnail_type(it.type)
    IN  [disposition |-> [mode |-> dispo,
                          filename |-> name \o <<"-thumb", ".", ttype>>],
         length |-> [of |-> "len(thumbnail_data)", n |-> 0],
         ctype |-> <<"image", ttype>>,
         nosniff |-> "nosniff", cache |-> CacheForever,
         etag |-> Quote(name \o <<"-thumb">>)]

----------------------------------------------------------------------------
(* State *)

IdleReq == [pc |-> "idle", route |-> "none", mayRead |-> FALSE,
            mayAdmin |-> FALSE, exit |-> "none", status |-> 0,
            body |-> "none", metaRead |-> FALSE, expiry |-> "notcalled",
            nreads |-> 0, tsWritten |-> FALSE,
            headers |-> NoHeaders, data |-> NoData]

NoHandle == [opened |-> 0, closed |-> 0]

NoGen == [state |-> "none", start |-> 0, limit |-> 0, offset |-> 0, out |-> <<>>]

(* an item of n bytes: its name, FILENAME and leading characters *)
Item(n) == [exists |-> TRUE, complete |-> TRUE, locked |-> FALSE,
            type |-> <<"application", "octet-stream">>,
            size |-> n, dataSize |-> n, stored |-> n, tsDownload |-> 0,
            name |-> <<"n1">>, filename |-> <<"a", ".", "b">>,
            content |-> IF n = 0 THEN <<>> ELSE <<"<">>]

(* the items the storage may hold under the name: complete items carry     *)
(* SIZE = data.size = the stored length                                    *)
Items == {[Item(n) EXCEPT !.exists = e, !.complete = c, !.locked = l, !.type = t] :
          e \in BOOLEAN, c \in BOOLEAN, l \in BOOLEAN, t \in Types, n \in Sizes}

Init ==
    /\ store \in Items
    /\ PIL \in BOOLEAN
    /\ av \in BOOLEAN
    /\ req = [r \in Reqs |-> IdleReq]
    /\ hnd = [r \in Reqs |-> NoHandle]
    /\ gen = [r \in Reqs |-> NoGen]

----------------------------------------------------------------------------
(* Operations *)

(* DownloadView.response: the Response wraps the generator, not yet started *)
DownloadResponse(q, it) ==
    [req |-> [q EXCEPT !.pc = "streaming", !.status = 200, !.body = "stream",
                       !.headers = DownloadHeaders(it, content_disposition(q.route))],
     gen |-> [state |-> "created", start |-> 0, limit |-> it.dataSize,
              offset |-> 0, out |-> <<>>]]

(* ThumbnailView.response: the thumbnail is built before get() returns *)
ThumbnailResponse(q, it, pil, hasAv, decodes) ==
    LET strategy == ThumbStrategy(pil, it.type)
        n == IF ThumbReadLen(strategy, it.size) >= 0 THEN 1 ELSE 0
    IN  IF ThumbRaises(strategy, hasAv, decodes)
        THEN [q EXCEPT !.pc = "done", !.status = 500, !.body = "error",
                       !.nreads = @ + n]
        ELSE [q EXCEPT !.pc = "done", !.status = 200, !.body = strategy,
                       !.nreads = @ + n,
                       !.data = ThumbnailData(strategy, it),
                       !.headers =
                           IF strategy = "placeholder_nocodec"
                           THEN NoCodecHeaders(it.name)
                           ELSE IF strategy = "placeholder"
                           THEN PlaceholderHeaders(it.name)
                           ELSE ThumbnailHeaders(it, content_disposition(q.route))]

(* the handle after get()'s try/finally *)
GateHandle(exit) ==
    IF exit \in AfterOpen
    THEN [opened |-> 1, closed |-> IF need_close(exit) THEN 1 ELSE 0]
    ELSE NoHandle

(* the response of an exit that ends the request in get() *)
Terminal(q, exit) ==
    IF exit = "incomplete"
    THEN [q EXCEPT !.pc = "done", !.status = err_incomplete(q.route).status,
                   !.body = err_incomplete(q.route).body]
    ELSE [q EXCEPT !.pc = "done", !.status = ExitStatus(exit), !.body = "error"]

(* GET /<name> on one of the three views: get(), and response() on a pass *)
Get(r) ==
    /\ req[r].pc = "idle"
    /\ \E route \in Routes, mr \in BOOLEAN, ma \in BOOLEAN, fault \in Faults,
          over \in BOOLEAN, decodes \in BOOLEAN :
          LET exit == GateExit(mr, ma, store, fault, over)
              q == [req[r] EXCEPT !.route = route, !.mayRead = mr,
                                  !.mayAdmin = ma, !.exit = exit,
                                  !.metaRead = MetaRead(exit),
                                  !.expiry = ExpiryCall(exit)]
          IN  /\ hnd' = [hnd EXCEPT ![r] = GateHandle(exit)]
              /\ store' = IF exit = "expired"
                           THEN [store EXCEPT !.exists = FALSE] ELSE store
              /\ IF exit # "pass"
                  THEN /\ req' = [req EXCEPT ![r] = Terminal(q, exit)]
                       /\ gen' = gen
                  ELSE IF route = "thumbnail"
                  THEN /\ req' = [req EXCEPT ![r] =
                                      ThumbnailResponse(q, store, PIL, av, decodes)]
                       /\ gen' = gen
                  ELSE /\ req' = [req EXCEPT ![r] = DownloadResponse(q, store).req]
                       /\ gen' = [gen EXCEPT ![r] = DownloadResponse(q, store).gen]
    /\ UNCHANGED <<PIL, av>>

(* next() on the generator: the loop body up to "yield buf" *)
PullChunk(r) ==
    /\ req[r].pc = "streaming"
    /\ gen[r].state \in {"created", "suspended"}
    /\ Len(gen[r].out) < MaxPulls
    /\ LET off == LoopOffset(gen[r])
           len == Read(ChunkLen(gen[r].limit, off), off, store.stored)
       IN  /\ WhileTest(off, gen[r].limit)
           /\ gen' = [gen EXCEPT ![r].state = "suspended",
                                  ![r].offset = off + len,
                                  ![r].out = Append(@, [off |-> off, len |-> len])]
           /\ req' = [req EXCEPT ![r].nreads = @ + 1]
    /\ UNCHANGED <<store, PIL, av, hnd>>

(* next() on the generator when the while test fails: the timestamp is     *)
(* written, the with block is left, StopIteration                          *)
PullEnd(r) ==
    /\ req[r].pc = "streaming"
    /\ gen[r].state \in {"created", "suspended"}
    /\ ~WhileTest(LoopOffset(gen[r]), gen[r].limit)
    /\ \E now \in 1..MaxTime :
          store' = [store EXCEPT !.tsDownload = now]
    /\ gen' = [gen EXCEPT ![r].state = "ended", ![r].offset = LoopOffset(gen[r])]
    /\ hnd' = [hnd EXCEPT ![r] = WithExit(@)]
    /\ req' = [req EXCEPT ![r].pc = "done", ![r].tsWritten = TRUE]
    /\ UNCHANGED <<PIL, av>>

(* the handle after generator.close(): a generator never resumed runs no   *)
(* code; one suspended at the yield gets GeneratorExit there and leaves    *)
(* the with block                                                          *)
CloseHandle(g, h) == IF g.state = "suspended" THEN WithExit(h) ELSE h

(* the consumer closes the response before the stream has ended *)
CloseStream(r) ==
    /\ req[r].pc = "streaming"
    /\ gen[r].state \in {"created", "suspended"}
    /\ hnd' = [hnd EXCEPT ![r] = CloseHandle(gen[r], @)]
    /\ gen' = [gen EXCEPT ![r].state = "closed"]
    /\ req' = [req EXCEPT ![r].pc = "done"]
    /\ UNCHANGED <<store, PIL, av>>

(* one request at a time *)
Next == Get("r1") \/ PullChunk("r1") \/ PullEnd("r1") \/ CloseStream("r1")

Spec == Init /\ [][Next]_vars

----------------------------------------------------------------------------
(* stream(item, start, limit) as a function of its arguments: the          *)
(* generator is created on an open item with any start and limit, the      *)
(* stored data as long as the limit or shorter, and pulled to the end      *)

StreamSizes == {q * ChunkSize + k : q \in 0..MaxChunks, k \in {0, 1, ChunkSize - 1}}

StreamStarts(n) == {-1, 0, 1, ChunkSize, n, n + 1}

StreamInit ==
    /\ \E n \in StreamSizes, short \in {0, 1, ChunkSize}, over \in {-1, 0, 1} :
          /\ n + over >= 0
          /\ store = [Item(n) EXCEPT !.stored = Max(0, n - short),
                                      !.content = <<>>]
          /\ \E start \in StreamStarts(n) :
                gen = [r \in Reqs |->
                         IF r = "r1"
                         THEN [state |-> "created", start |-> start,
                               limit |-> n + over, offset |-> 0, out |-> <<>>]
                         ELSE NoGen]
    /\ PIL = TRUE
    /\ av = TRUE
    /\ req = [r \in Reqs |->
                IF r = "r1"
                THEN [IdleReq EXCEPT !.pc = "streaming", !.route = "download",
                                     !.mayRead = TRUE, !.exit = "pass",
                                     !.status = 200, !.body = "stream",
                                     !.metaRead = TRUE, !.expiry = "false"]
                ELSE IdleReq]
    /\ hnd = [r \in Reqs |-> IF r = "r1" THEN GateHandle("pass") ELSE NoHandle]

StreamNext == PullChunk("r1") \/ PullEnd("r1")

StreamSpec == StreamInit /\ [][StreamNext]_vars

----------------------------------------------------------------------------
(* response() as a function of the item: a complete, unlocked item of any  *)
(* name, filename, stored type, SIZE and data size, with and without the   *)
(* optional codecs                                                         *)

FrameTypes == RasterTypes \cup Types \cup {<<"text", "plain">>}

FrameNames == {<<"n1">>, <<"a">>}

FrameFilenames == {<<"a", ".", "b">>, <<"c">>, <<".", "a">>}

FrameItems == {[Item(d) EXCEPT !.type = t, !.name = nm, !.filename = fn, !.size = n] :
               t \in FrameTypes, nm \in FrameNames, fn \in FrameFilenames,
               n \in Sizes, d \in Sizes}

FrameInit ==
    /\ store \in FrameItems
    /\ PIL \in BOOLEAN
    /\ av \in BOOLEAN
    /\ req = [r \in Reqs |-> IdleReq]
    /\ hnd = [r \in Reqs |-> NoHandle]
    /\ gen = [r \in Reqs |-> NoGen]

FrameSpec == FrameInit /\ [][Next]_vars

----------------------------------------------------------------------------
(* The SVG generators as functions of the item: text items of any content  *)
(* of a few short or long lines, and items of a type that no case matches, *)
(* markup characters in the MIME string included                           *)

MaxLineLen == 2

Alphabet == {"a", "&", "<", ">"}

ShortLines == UNION {[1..n -> Alphabet] : n \in 0..MaxLineLen}

(* lines whose last characters fall on and after column PreviewCols *)
LongLines == {[i \in 1..(PreviewCols - 1) |-> "a"] \o l : l \in ShortLines \ {<<>>}}

(* k lines "<" followed by the line l *)
RECURSIVE Lines(_, _)
Lines(k, l) == IF k = 0 THEN l ELSE <<"<", "\n">> \o Lines(k - 1, l)

Contents == {Lines(k, l) : k \in {0, 1, PreviewLines}, l \in ShortLines \cup LongLines}

TextTypes == {<<"text", "plain">>, <<"application", "octet-stream">>,
              <<"x", "<">>, <<"x", "&">>}

TextItems == {[Item(Len(c)) EXCEPT !.type = t, !.content = c] :
              t \in TextTypes, c \in Contents}

TextInit ==
    /\ store \in TextItems
    /\ PIL \in BOOLEAN
    /\ av = TRUE
    /\ req = [r \in Reqs |-> IdleReq]
    /\ hnd = [r \in Reqs |-> NoHandle]
    /\ gen = [r \in Reqs |-> NoGen]

TextNext == Get("r1")

TextSpec == TextInit /\ [][TextNext]_vars

----------------------------------------------------------------------------
(* Concurrent requests on one complete, unlocked item *)

ConcInit ==
    /\ store \in {Item(n) : n \in Sizes}
    /\ PIL = TRUE
    /\ av = TRUE
    /\ req = [r \in Reqs |-> IdleReq]
    /\ hnd = [r \in Reqs |-> NoHandle]
    /\ gen = [r \in Reqs |-> NoGen]

ConcNext == \E r \in Reqs : Get(r) \/ PullChunk(r) \/ PullEnd(r) \/ CloseStream(r)

ConcSpec == ConcInit /\ [][ConcNext]_vars

----------------------------------------------------------------------------
(* Properties *)

Raised == {"open_error", "raised_complete", "raised_locked", "raised_expiry"}

(* the request went through get() *)
Answered(r) == req[r].pc # "idle"

(* the request passed the gate on the download or the inline route *)
Streams(r) == req[r].exit = "pass" /\ req[r].route \in {"download", "inline"}

(* bytes the consumer has received, and bytes of the range of the stream *)
Received(g) == SumLen(g.out)

Range(g) == Max(0, g.limit - StartOffset(g.start))

(* C1: on the thumbnail route, a request that passed the gate has had its  *)
(* handle released exactly once by the time the thumbnail response is      *)
(* produced, whichever strategy was taken.                                 *)
ThumbnailHandleReleasedOnce ==
    \A r \in Reqs :
        (req[r].route = "thumbnail" /\ req[r].exit = "pass" /\ req[r].status = 200)
            => hnd[r].closed = 1

(* C2: on the download and inline routes, a request that passed the gate   *)
(* has its handle released exactly once when the stream ends, wherever the *)
(* consumer stops (exhaustion, abort after chunk k, close before the first *)
(* pull), and never while chunks are still being emitted.                  *)
StreamHandleReleasedOnce ==
    \A r \in Reqs :
        Streams(r) =>
            /\ req[r].pc = "done" => hnd[r].closed = 1
            /\ req[r].pc = "streaming" => hnd[r].closed = 0

(* C3: on every rejection path of get() reached after the handle was       *)
(* opened (incomplete, locked without ADMIN, expired, or an exception of a *)
(* metadata lookup or of the expiry predicate) the handle is closed        *)
(* exactly once before get() returns and is never passed to response().    *)
RejectionClosesHandle ==
    \A r \in Reqs :
        (Answered(r) /\ req[r].exit \in AfterOpen \ {"pass"}) =>
            /\ hnd[r].opened = 1
            /\ hnd[r].closed = 1
            /\ gen[r].state = "none"
            /\ req[r].body \in {"error", "error.html", "empty"}
            /\ req[r].nreads = 0

RejectionClosesHandle_Witness ==
    /\ req["r1"].exit = "raised_expiry"
    /\ req["r1"].status = 500
    /\ hnd["r1"].closed = 1

(* C4: content is read (item.data.read) only in a request whose caller has *)
(* READ, whose item existed (openwrite returned it), is complete, is       *)
(* unlocked or the caller has ADMIN, and for which the expiry predicate    *)
(* returned false.                                                         *)
ReadOnlyAfterGate ==
    \A r \in Reqs :
        req[r].nreads > 0 =>
            /\ req[r].mayRead
            /\ hnd[r].opened = 1
            /\ store.complete
            /\ ~store.locked \/ req[r].mayAdmin
            /\ req[r].expiry = "false"

ReadOnlyAfterGate_Witness ==
    /\ req["r1"].nreads = 2
    /\ store.locked
    /\ req["r1"].mayAdmin

(* C5, as stated: for an item with locked=true and a caller lacking ADMIN, *)
(* whatever the other metadata (complete or not), the route returns 403    *)
(* and no content byte is read.                                            *)
LockedAlwaysForbidden ==
    \A r \in Reqs :
        (Answered(r) /\ store.exists /\ store.locked /\ ~req[r].mayAdmin
         /\ req[r].exit \notin Raised) =>
            /\ req[r].status = 403
            /\ req[r].nreads = 0

(* C5, amended: for an item with locked=true and a caller lacking ADMIN no *)
(* content byte is read, and, no storage call raising, the route returns   *)
(* 403 if the item is complete or the caller lacks READ, and 409 if the    *)
(* item is incomplete and the caller has READ (COMPLETE is tested before   *)
(* LOCKED).                                                                *)
LockedForbiddenUnlessIncomplete ==
    \A r \in Reqs :
        (Answered(r) /\ store.exists /\ store.locked /\ ~req[r].mayAdmin) =>
            /\ req[r].nreads = 0
            /\ req[r].exit \notin Raised =>
                  req[r].status = IF store.complete \/ ~req[r].mayRead
                                  THEN 403 ELSE 409

LockedForbiddenUnlessIncomplete_Witness ==
    /\ Answered("r1")
    /\ store.locked /\ store.complete
    /\ req["r1"].mayRead /\ ~req["r1"].mayAdmin
    /\ req["r1"].status = 403

(* C6: for an item with complete=false, a request that reaches the gate    *)
(* (the caller has READ, the item exists, no storage call raises) gets     *)
(* HTTP 409 on the download, inline and thumbnail routes and reads no      *)
(* content byte; the body is the rendered error page on download and       *)
(* inline and the empty body on thumbnail.                                 *)
IncompleteConflict ==
    \A r \in Reqs :
        (Answered(r) /\ req[r].mayRead /\ store.exists /\ ~store.complete
         /\ req[r].exit \notin Raised) =>
            /\ req[r].status = 409
            /\ req[r].nreads = 0
            /\ req[r].body = IF req[r].route = "thumbnail"
                              THEN "empty" ELSE "error.html"

IncompleteConflict_Witness ==
    /\ req["r1"].route = "thumbnail"
    /\ req["r1"].status = 409
    /\ req["r1"].body = "empty"
    /\ store.locked /\ ~req["r1"].mayAdmin

(* C7: a caller lacking READ gets Forbidden and get() does no storage      *)
(* access: no openwrite, no metadata read, no expiry predicate, no handle  *)
(* to release.                                                             *)
NoReadNoStorageAccess ==
    \A r \in Reqs :
        (Answered(r) /\ ~req[r].mayRead) =>
            /\ req[r].status = 403
            /\ hnd[r] = NoHandle
            /\ ~req[r].metaRead
            /\ req[r].expiry = "notcalled"
            /\ req[r].nreads = 0
            /\ gen[r].state = "none"
            /\ store.tsDownload = 0

NoReadNoStorageAccess_Witness ==
    /\ Answered("r1")
    /\ ~req["r1"].mayRead /\ req["r1"].mayAdmin
    /\ store.exists /\ ~store.complete
    /\ req["r1"].status = 403

(* C8, as stated: the last-download timestamp is written if and only if    *)
(* the consumer received every chunk of the stream, which covers a         *)
(* consumer that takes all m chunks and then closes without pulling again  *)
(* and the zero-byte item.                                                 *)
TimestampIffAllChunks ==
    \A r \in Reqs :
        (Streams(r) /\ req[r].pc = "done") =>
            (store.tsDownload # 0 <=> Received(gen[r]) = Range(gen[r]))

(* C8, amended: the timestamp is written if and only if the consumer       *)
(* pulled the stream to its end (one more pull after the last chunk);      *)
(* aborting after chunk k < m, closing after the m-th chunk without        *)
(* pulling again, or closing before the first pull leaves it unchanged;    *)
(* and when it is written every byte of the range has been emitted.        *)
TimestampIffExhausted ==
    \A r \in Reqs :
        Streams(r) =>
            /\ store.tsDownload # 0 <=> gen[r].state = "ended"
            /\ store.tsDownload # 0 => Received(gen[r]) = Range(gen[r])

TimestampIffExhausted_Witness ==
    /\ Streams("r1")
    /\ gen["r1"].state = "ended"
    /\ Len(gen["r1"].out) = 2
    /\ store.tsDownload # 0

(* C9: stream(item, start, limit) on an N-byte item with limit = N,        *)
(* consumed to exhaustion: every chunk is at most 16384 bytes, every chunk *)
(* but the last exactly 16384, chunk i is read at the offset max(0,start)  *)
(* plus the lengths of the earlier chunks, strictly after chunk i-1, and   *)
(* the lengths sum to the range [max(0,start), limit), that is to N for    *)
(* start = 0.                                                              *)
ChunksCoverRange ==
    \A r \in Reqs :
        LET g == gen[r] IN
        (g.state # "none" /\ store.stored = g.limit) =>
            /\ \A i \in 1..Len(g.out) :
                  /\ g.out[i].len <= ChunkSize
                  /\ i < Len(g.out) => g.out[i].len = ChunkSize
                  /\ g.out[i].off =
                        StartOffset(g.start) + SumLen(SubSeq(g.out, 1, i - 1))
                  /\ i > 1 => g.out[i].off > g.out[i - 1].off
            /\ g.state = "suspended" /\ g.offset < g.limit =>
                  g.out[Len(g.out)].len = ChunkSize
            /\ g.state = "ended" =>
                  /\ Received(g) = Range(g)
                  /\ g.start = 0 => Received(g) = store.stored

ChunksCoverRange_Witness ==
    LET g == gen["r1"] IN
    /\ g.state = "ended"
    /\ g.start = 0
    /\ store.stored = g.limit
    /\ Len(g.out) = 3
    /\ g.out[3].len = ChunkSize - 1

(* C10: whatever read(length, offset) returns, fewer bytes than asked or   *)
(* none included, a consumer that keeps pulling reaches the end of the     *)
(* stream after finitely many chunks: every chunk pulled moves the offset, *)
(* the only state of the loop, strictly towards the limit.                 *)
StreamTerminates ==
    [][\A r \in Reqs :
          Len(gen'[r].out) > Len(gen[r].out) =>
              gen'[r].limit - gen'[r].offset
                  < gen[r].limit - LoopOffset(gen[r])]_vars

(* the request passed the gate on the thumbnail route and got its thumbnail *)
Thumbnailed(r) ==
    req[r].route = "thumbnail" /\ req[r].exit = "pass" /\ req[r].status = 200

(* C11: every successful response carries the ETag "<name>" on the         *)
(* download and inline routes and "<name>-thumb" on the thumbnail route,   *)
(* for every thumbnail strategy, <name> being the item's storage name.     *)
ETagFromStorageName ==
    \A r \in Reqs :
        (req[r].exit = "pass" /\ req[r].status = 200) =>
            req[r].headers.etag =
                IF req[r].route = "thumbnail"
                THEN Quote(store.name \o <<"-thumb">>)
                ELSE Quote(store.name)

(* C12: on the inline route a stored type beginning with "text/" is sent   *)
(* as text/plain and every other type unchanged; on the download route     *)
(* (attachment) every stored type is sent unchanged.                       *)
InlineTextIsPlain ==
    \A r \in Reqs :
        Streams(r) =>
            req[r].headers.ctype =
                IF req[r].route = "inline" /\ store.type[1] = "text"
                THEN <<"text", "plain">>
                ELSE store.type

InlineTextIsPlain_Witness ==
    /\ Streams("r1")
    /\ req["r1"].route = "inline"
    /\ store.type = <<"text", "html">>
    /\ req["r1"].headers.ctype = <<"text", "plain">>

(* the filename hint <stem>-thumb.<format> *)
ThumbFilename(fn, format) == splitext(fn)[1] \o <<"-thumb", ".", format>>

(* C13, as stated: with PIL present, for each stored type of image/jpeg,   *)
(* png, gif, webp, bmp the encoder format, the Content-Type image/<format> *)
(* and the extension of <stem>-thumb.<format> all name the format of the   *)
(* stored type.                                                            *)
RasterFormatOfStoredType ==
    \A r \in Reqs :
        (Thumbnailed(r) /\ PIL /\ store.type \in RasterTypes) =>
            /\ req[r].data.encoding = store.type[2]
            /\ req[r].headers.ctype = <<"image", store.type[2]>>
            /\ req[r].headers.disposition.filename =
                   ThumbFilename(store.filename, store.type[2])

(* C13, amended: with PIL present, image/jpeg, image/png, image/webp and   *)
(* image/bmp are re-encoded in their own format and image/gif as png; the  *)
(* encoder format, the Content-Type and the extension of the filename hint *)
(* name that one format.                                                   *)
RasterFormatGifAsPng ==
    \A r \in Reqs :
        (Thumbnailed(r) /\ PIL /\ store.type \in RasterTypes) =>
            LET format == IF store.type = <<"image", "gif">>
                          THEN "png" ELSE store.type[2]
            IN  /\ req[r].data.encoding = format
                /\ req[r].headers.ctype = <<"image", format>>
                /\ req[r].headers.disposition.filename =
                       ThumbFilename(store.filename, format)

RasterFormatGifAsPng_Witness ==
    /\ Thumbnailed("r1")
    /\ store.type = <<"image", "gif">>
    /\ req["r1"].data.encoding = "png"
    /\ req["r1"].headers.ctype = <<"image", "png">>

(* C14: with the codecs present, the thumbnail of a video/mp4 item is a    *)
(* still image encoded as JPEG and its Content-Type is image/jpeg.         *)
VideoThumbnailIsJpeg ==
    \A r \in Reqs :
        (Thumbnailed(r) /\ PIL /\ av /\ store.type = <<"video", "mp4">>) =>
            /\ req[r].data.encoding = "jpeg"
            /\ req[r].headers.ctype = <<"image", "jpeg">>

(* what the "case _" branch answers, PIL present, for an unsupported type *)
UnsupportedResponse(q, it) ==
    ThumbnailResponse(q, [it EXCEPT !.type = <<"application", "octet-stream">>],
                      TRUE, TRUE, TRUE)

(* C15: without PIL, a thumbnail request that passes the gate gets, for    *)
(* every stored type, the placeholder SVG with Content-Type image/svg+xml, *)
(* no strategy is invoked and no content byte read; status, headers and    *)
(* body template are those of the unsupported-type branch with PIL         *)
(* present, the embedded MIME string apart.                                *)
NoCodecIsPlaceholder ==
    \A r \in Reqs :
        (Answered(r) /\ req[r].route = "thumbnail" /\ req[r].exit = "pass" /\ ~PIL) =>
            LET u == UnsupportedResponse(
                         [req[r] EXCEPT !.nreads = 0, !.headers = NoHeaders,
                                        !.data = NoData], store)
            IN  /\ req[r].status = 200
                /\ req[r].body = "placeholder_nocodec"
                /\ req[r].nreads = 0
                /\ req[r].headers.ctype = <<"image", "svg+xml">>
                /\ req[r].data.text = MimeText(store.type)
                /\ u.body = "placeholder"
                /\ req[r].status = u.status
                /\ req[r].headers = u.headers
                /\ req[r].data.encoding = u.data.encoding
                /\ req[r].nreads = u.nreads

NoCodecIsPlaceholder_Witness ==
    /\ ~PIL
    /\ Thumbnailed("r1")
    /\ store.type = <<"image", "jpeg">>
    /\ req["r1"].data.text = <<"image", "/", "jpeg">>

(* C16: with PIL present and av absent, the thumbnail of a video/mp4 item  *)
(* is the placeholder SVG, status 200, Content-Type image/svg+xml: the     *)
(* absence of a codec never ends a thumbnail request in an error.          *)
NoVideoCodecIsPlaceholder ==
    \A r \in Reqs :
        (Answered(r) /\ req[r].route = "thumbnail" /\ req[r].exit = "pass"
         /\ PIL /\ ~av /\ store.type = <<"video", "mp4">>) =>
            /\ req[r].status = 200
            /\ req[r].body = "placeholder"
            /\ req[r].headers.ctype = <<"image", "svg+xml">>

(* "&", "<", ">" as entities, character by character *)
RECURSIVE Entities(_)
Entities(s) ==
    IF s = <<>> THEN <<>>
    ELSE (CASE s[1] = "&" -> <<"&", "amp;">>
            [] s[1] = "<" -> <<"&", "lt;">>
            [] s[1] = ">" -> <<"&", "gt;">>
            [] OTHER -> <<s[1]>>) \o Entities(Tail(s))

(* the item-controlled text a generated SVG shows *)
ShownText(r) ==
    IF req[r].body = "text"
    THEN PreviewText(PreviewRead(store.content, store.size))
    ELSE MimeText(store.type)

(* C17: in the SVG of the placeholder strategy and of the text-preview     *)
(* strategy no "&", "<" or ">" of the item-controlled input (the stored    *)
(* MIME string, the first content bytes) appears unescaped: each is        *)
(* replaced by &amp;, &lt;, &gt;.                                          *)
MarkupEscaped ==
    \A r \in Reqs :
        (Thumbnailed(r)
         /\ req[r].body \in {"text", "placeholder", "placeholder_nocodec"}) =>
            LET out == req[r].data.text
            IN  /\ \A i \in 1..Len(out) : out[i] \notin {"<", ">"}
                /\ \A i \in 1..Len(out) :
                      out[i] = "&" =>
                          i < Len(out) /\ out[i + 1] \in {"amp;", "lt;", "gt;"}
                /\ out = Entities(ShownText(r))

(* C18: delete_if_lifetime_over is invoked by get() only for a request     *)
(* whose caller has READ, whose item is complete and is unlocked or whose  *)
(* caller has ADMIN; a request answered 403 or 409 does not invoke it and  *)
(* leaves the item and its metadata, the last-download timestamp included, *)
(* unchanged.                                                              *)
ExpiryOnlyAfterChecks ==
    [][\A r \in Reqs :
          (req[r].pc = "idle" /\ req'[r].pc # "idle") =>
              /\ req'[r].expiry # "notcalled" =>
                    /\ req'[r].mayRead
                    /\ store.complete
                    /\ ~store.locked \/ req'[r].mayAdmin
              /\ req'[r].status \in {403, 409} =>
                    /\ req'[r].expiry = "notcalled"
                    /\ store' = store]_vars

ExpiryOnlyAfterChecks_Witness ==
    /\ req["r1"].exit = "forbidden_locked"
    /\ req["r1"].status = 403
    /\ req["r1"].expiry = "notcalled"
    /\ store.exists /\ store.tsDownload = 0

(* C19: for every download or inline response consumed to exhaustion the   *)
(* Content-Length header equals the number of bytes the stream emitted,    *)
(* for every item, meta[SIZE] and item.data.size differing or not.         *)
ContentLengthIsBytesEmitted ==
    \A r \in Reqs :
        (Streams(r) /\ gen[r].state = "ended") =>
            req[r].headers.length.n = Received(gen[r])

(* C20, as stated: once a request's expiry check has deleted the item, no  *)
(* chunk of it is emitted and no last-download timestamp is written to it  *)
(* by any request, a stream that passed the gate before the deletion       *)
(* included.                                                               *)
NothingServedAfterDeletion ==
    [][~store.exists =>
          /\ \A r \in Reqs : gen'[r].out = gen[r].out
          /\ \A r \in Reqs : req'[r].tsWritten = req[r].tsWritten
          /\ store'.tsDownload = store.tsDownload]_vars

(* C20, amended: once a request's expiry check has deleted the item, no    *)
(* request passes the gate any more: a request arriving afterwards opens   *)
(* no handle, reads no content and starts no stream.  A stream that passed *)
(* the gate before the deletion keeps its handle and may go on emitting    *)
(* chunks and write the timestamp.                                         *)
NoPassAfterDeletion ==
    [][\A r \in Reqs :
          (~store.exists /\ req[r].pc = "idle" /\ req'[r].pc # "idle") =>
              /\ req'[r].exit \in {"forbidden_read", "open_error", "not_found"}
              /\ hnd'[r] = NoHandle
              /\ gen'[r] = NoGen
              /\ req'[r].nreads = 0]_vars

NoPassAfterDeletion_Witness ==
    /\ ~store.exists
    /\ req["r1"].exit = "expired"
    /\ req["r2"].exit = "not_found"
    /\ req["r2"].mayRead

====
